---------------------------- MODULE Spec2Model ----------------------------
(***************************************************************************)
(* Model of the hackathon support chatbot (src/main.py, src/database.py):  *)
(* the /chat handler, the keyword-driven context extractor                 *)
(* extract_relevant_sections with its two time helpers, and the record     *)
(* store the handler reads.                                                *)
(*                                                                         *)
(* Conventions                                                             *)
(*  - A Python dict is a TLA+ function whose DOMAIN is the set of keys     *)
(*    present; d.get(k, default) is Get(d, k, default).                    *)
(*  - An entry of a collection is tagged with its Python type:             *)
(*    Dict(f) for a mapping, Str(s) for a bare string.                     *)
(*  - A line appended to `sections` is a tuple <<template, arg, ...>>:     *)
(*    the f-string's text with {} for each hole, then the holes' values    *)
(*    as the strings Python's formatting produces.                         *)
(*    Decorative glyphs of the source's literals (emoji, bullets) are left *)
(*    out or written as "*".                                               *)
(*  - A datetime string is a record telling its form (see ParseIso).       *)
(***************************************************************************)
EXTENDS Integers, Sequences, FiniteSets, TLC

(***************************************************************************)
(* Bounds of the model.                                                    *)
(***************************************************************************)
\* Instants are 0..MaxTime.
MaxTime == 3

\* The longest conversation history a caller sends along with a question.
MaxTurns == 12

Time == 0..MaxTime

(***************************************************************************)
(* Strings: str.lower() and the `in` substring test.                       *)
(***************************************************************************)
LowerChar(c) ==
    CASE c = "A" -> "a" [] c = "B" -> "b" [] c = "C" -> "c" [] c = "D" -> "d"
      [] c = "E" -> "e" [] c = "F" -> "f" [] c = "G" -> "g" [] c = "H" -> "h"
      [] c = "I" -> "i" [] c = "J" -> "j" [] c = "K" -> "k" [] c = "L" -> "l"
      [] c = "M" -> "m" [] c = "N" -> "n" [] c = "O" -> "o" [] c = "P" -> "p"
      [] c = "Q" -> "q" [] c = "R" -> "r" [] c = "S" -> "s" [] c = "T" -> "t"
      [] c = "U" -> "u" [] c = "V" -> "v" [] c = "W" -> "w" [] c = "X" -> "x"
      [] c = "Y" -> "y" [] c = "Z" -> "z" [] OTHER -> c

RECURSIVE Lower(_)
Lower(s) == IF Len(s) = 0 THEN s ELSE LowerChar(Head(s)) \o Lower(Tail(s))

\* Python's `word in text` on strings: word occurs in text at some offset.
Contains(text, word) ==
    \E i \in 1..(Len(text) - Len(word) + 1) :
        SubSeq(text, i, i + Len(word) - 1) = word

\* any(word in question_lower for word in keywords)
AnyIn(keywords, question_lower) ==
    \E i \in 1..Len(keywords) : Contains(question_lower, keywords[i])

(***************************************************************************)
(* The keyword lists of extract_relevant_sections, in source order.        *)
(***************************************************************************)
registration_keywords ==
    <<"register", "registration", "sign up", "join", "participate", "enroll", "apply">>
team_keywords ==
    <<"team", "size", "member", "solo", "group", "individual", "alone", "partner",
      "collaborate">>
theme_keywords ==
    <<"theme", "track", "problem", "challenge", "topic", "category", "domain",
      "statement">>
timeline_keywords ==
    <<"phase", "timeline", "deadline", "when", "date", "schedule", "duration", "time",
      "start", "end", "submission">>
eval_keywords ==
    <<"judg", "evaluat", "criteria", "score", "point", "metric", "assess", "grade",
      "marking">>
resource_keywords ==
    <<"resource", "template", "material", "help", "guide", "document", "link", "tool">>
prize_keywords == <<"prize", "reward", "win", "award", "bounty", "incentive">>
event_keywords == <<"event", "workshop", "session", "webinar", "meeting", "ceremony">>
contact_keywords ==
    <<"contact", "reach", "support", "link", "social", "discord", "slack", "email">>
mentor_keywords == <<"mentor", "mentors", "mentorship", "guide", "advisor", "expert">>
judge_keywords == <<"judge", "judges", "judging", "jury", "evaluator">>
partner_keywords ==
    <<"partner", "partners", "sponsor", "sponsors", "supporter", "collaboration">>
faq_keywords == <<"faq", "frequently", "question", "questions", "common", "ask">>
rules_keywords ==
    <<"rule", "rules", "regulation", "regulations", "guideline", "guidelines", "policy">>
eligibility_keywords ==
    <<"eligib", "can i join", "can i participate", "who can", "requirement", "qualify">>
location_keywords == <<"location", "venue", "where", "address", "place">>
announcement_keywords ==
    <<"announcement", "announcements", "update", "updates", "news", "latest">>
stats_keywords == <<"how many", "participants", "registered", "views", "popular">>
tag_keywords == <<"tag", "tags", "category", "categories", "industry", "type">>
winner_keywords == <<"winner", "winners", "result", "results", "who won">>
contact_details_keywords == <<"email", "phone", "call", "contact number">>
general_keywords ==
    <<"about", "overview", "general", "info", "tell me", "what is", "status", "when">>

\* The categories in the order their blocks are tested and appended, each
\* with the tag appended to matched_categories.
Categories ==
    <<"registration", "team", "themes", "timeline", "evaluation", "resources",
      "prizes", "events", "contact", "mentors", "judges", "partners", "faq", "rules",
      "eligibility", "location", "announcements", "stats", "tags", "winners",
      "contact_details">>

KeywordsOf(cat) ==
    CASE cat = "registration" -> registration_keywords
      [] cat = "team" -> team_keywords
      [] cat = "themes" -> theme_keywords
      [] cat = "timeline" -> timeline_keywords
      [] cat = "evaluation" -> eval_keywords
      [] cat = "resources" -> resource_keywords
      [] cat = "prizes" -> prize_keywords
      [] cat = "events" -> event_keywords
      [] cat = "contact" -> contact_keywords
      [] cat = "mentors" -> mentor_keywords
      [] cat = "judges" -> judge_keywords
      [] cat = "partners" -> partner_keywords
      [] cat = "faq" -> faq_keywords
      [] cat = "rules" -> rules_keywords
      [] cat = "eligibility" -> eligibility_keywords
      [] cat = "location" -> location_keywords
      [] cat = "announcements" -> announcement_keywords
      [] cat = "stats" -> stats_keywords
      [] cat = "tags" -> tag_keywords
      [] cat = "winners" -> winner_keywords
      [] cat = "contact_details" -> contact_details_keywords

\* The condition of a category's `if`: some keyword of its list occurs in
\* the lower-cased question.
Matches(cat, question_lower) == AnyIn(KeywordsOf(cat), question_lower)

\* matched_categories at the end of the scan.
MatchedCategories(question_lower) ==
    SelectSeq(Categories, LAMBDA cat : Matches(cat, question_lower))

IsGeneral(question_lower) == AnyIn(general_keywords, question_lower)

(***************************************************************************)
(* Python values.                                                          *)
(***************************************************************************)
\* dict.get(key, default)
Get(d, key, default) == IF key \in DOMAIN d THEN d[key] ELSE default

Has(d, key) == key \in DOMAIN d

\* A collection entry: a mapping or a bare string.
Dict(f) == [kind |-> "dict", val |-> f]
Str(s) == [kind |-> "str", val |-> s]

\* The empty dict (also a dict with no key of interest).
EmptyDict == [k \in {} |-> ""]

\* The dict d without the keys in `keys`.
Without(d, keys) == [k \in (DOMAIN d) \ keys |-> d[k]]

\* f"{d.get(key)}" for a string field: the text, or None's rendering.
Text(d, key) == IF Has(d, key) THEN d[key] ELSE "None"

\* f"{d.get(key, default)}" for an integer field.
Num(d, key, default) == IF Has(d, key) THEN ToString(d[key]) ELSE default

\* Truthiness of d.get(key) for a string or list field.
Truthy(d, key) == Has(d, key) /\ Len(d[key]) > 0

\* Truthiness of d.get(key) for a boolean field.
Flag(d, key) == Has(d, key) /\ d[key]

(***************************************************************************)
(* Datetime strings.  A stored datetime string is one of                   *)
(*   form "Z"      : ISO-8601 with the literal Z suffix, local = UTC time; *)
(*   form "offset" : ISO-8601 with an explicit offset, UTC = local - off;  *)
(*   form "naive"  : ISO-8601 without any offset;                          *)
(*   form "bad"    : not ISO-8601 (also a non-string or null value);       *)
(*   form "empty"  : the '' default that .get supplies for a missing key.  *)
(***************************************************************************)
IsoZ(t) == [form |-> "Z", local |-> t, off |-> 0]
IsoOffset(t, o) == [form |-> "offset", local |-> t, off |-> o]
IsoNaive(t) == [form |-> "naive", local |-> t, off |-> 0]
NotIso == [form |-> "bad", local |-> 0, off |-> 0]
EmptyText == [form |-> "empty", local |-> 0, off |-> 0]

\* f"{d.get(key)}" for a datetime field: the stored text as it is.
DateText(d, key) ==
    IF ~Has(d, key) THEN "None"
    ELSE LET v == d[key] IN
         CASE v.form = "Z" -> "T" \o ToString(v.local) \o "Z"
           [] v.form = "offset" -> "T" \o ToString(v.local) \o "+" \o ToString(v.off)
           [] v.form = "naive" -> "T" \o ToString(v.local)
           [] OTHER -> "soon"

\* text.replace('Z', '+00:00')
ReplaceZ(v) == IF v.form = "Z" THEN [v EXCEPT !.form = "offset", !.off = 0] ELSE v

\* datetime.fromisoformat(text): fails on text that is not ISO-8601 (the
\* bare Z suffix included); gives an aware datetime, held as its UTC
\* instant, for a text with an offset, and a naive one otherwise.
FromIso(v) ==
    CASE v.form = "offset" -> [ok |-> TRUE, aware |-> TRUE, t |-> v.local - v.off]
      [] v.form = "naive" -> [ok |-> TRUE, aware |-> FALSE, t |-> v.local]
      [] OTHER -> [ok |-> FALSE, aware |-> FALSE, t |-> 0]

\* datetime.fromisoformat(d.get(key, '').replace('Z', '+00:00'))
ParseIso(d, key) == FromIso(ReplaceZ(Get(d, key, EmptyText)))

(***************************************************************************)
(* get_hackathon_status, with `now` the aware instant it reads.            *)
(* Comparing the aware `now` with a naive datetime raises TypeError, which *)
(* the bare except turns into "unknown" like a parse failure.              *)
(***************************************************************************)
get_hackathon_status(hackathon_data, now) ==
    LET start == ParseIso(hackathon_data, "start_datetime")
        end == ParseIso(hackathon_data, "end_datetime")
    IN  IF ~start.ok \/ ~end.ok THEN "unknown"
        ELSE IF ~start.aware THEN "unknown"
        ELSE IF now < start.t THEN "upcoming"
        ELSE IF ~end.aware THEN "unknown"
        ELSE IF now > end.t THEN "ended"
        ELSE "ongoing"

(***************************************************************************)
(* next((p for p in phases if p.get('type') == 'registration'), None):     *)
(* the scan stops at the first registration phase; p.get on a bare string  *)
(* met before it raises AttributeError.                                    *)
(***************************************************************************)
RECURSIVE FirstRegistration(_)
FirstRegistration(phases) ==
    IF Len(phases) = 0 THEN [kind |-> "none", val |-> EmptyDict]
    ELSE LET p == Head(phases) IN
         IF p.kind = "str" THEN [kind |-> "raise", val |-> EmptyDict]
         ELSE IF Has(p.val, "type") /\ p.val["type"] = "registration"
              THEN [kind |-> "phase", val |-> p.val]
              ELSE FirstRegistration(Tail(phases))

\* hackathon_data.get('is_registration_open', False)
StoredFlag(hackathon_data) == Get(hackathon_data, "is_registration_open", FALSE)

(***************************************************************************)
(* is_registration_currently_open, with `now` the aware instant it reads.  *)
(* start <= now <= end evaluates start <= now first and stops when it is   *)
(* false; a comparison with a naive bound raises, and every exception      *)
(* falls back to the stored flag.                                          *)
(***************************************************************************)
is_registration_currently_open(hackathon_data, now) ==
    LET reg == FirstRegistration(Get(hackathon_data, "phases", <<>>))
        start == ParseIso(reg.val, "start_datetime")
        end == ParseIso(reg.val, "end_datetime")
    IN  IF reg.kind # "phase" THEN StoredFlag(hackathon_data)
        ELSE IF ~start.ok \/ ~end.ok THEN StoredFlag(hackathon_data)
        ELSE IF ~start.aware THEN StoredFlag(hackathon_data)
        ELSE IF ~(start.t <= now) THEN FALSE
        ELSE IF ~end.aware THEN StoredFlag(hackathon_data)
        ELSE now <= end.t

(***************************************************************************)
(* The result of a piece of extract_relevant_sections: the lines it        *)
(* appended to `sections`, or an exception that leaves the function.       *)
(***************************************************************************)
Ok(lines) == [raise |-> FALSE, lines |-> lines]
Raise == [raise |-> TRUE, lines |-> <<>>]

\* a, then b: the first exception ends the run.
Then(a, b) ==
    IF a.raise THEN Raise
    ELSE IF b.raise THEN Raise
    ELSE Ok(a.lines \o b.lines)

\* The results of a loop's passes, in order: a loop
\* `for idx, entry in enumerate(entries, 1)` is ConcatAll of the sequence
\* of its passes' results.
RECURSIVE ConcatAll(_)
ConcatAll(results) ==
    IF Len(results) = 0 THEN Ok(<<>>)
    ELSE Then(Head(results), ConcatAll(Tail(results)))

\* The lines when cond holds, nothing otherwise.
When(cond, lines) == IF cond THEN lines ELSE <<>>

UpperChar(c) ==
    CASE c = "a" -> "A" [] c = "b" -> "B" [] c = "c" -> "C" [] c = "d" -> "D"
      [] c = "e" -> "E" [] c = "f" -> "F" [] c = "g" -> "G" [] c = "h" -> "H"
      [] c = "i" -> "I" [] c = "j" -> "J" [] c = "k" -> "K" [] c = "l" -> "L"
      [] c = "m" -> "M" [] c = "n" -> "N" [] c = "o" -> "O" [] c = "p" -> "P"
      [] c = "q" -> "Q" [] c = "r" -> "R" [] c = "s" -> "S" [] c = "t" -> "T"
      [] c = "u" -> "U" [] c = "v" -> "V" [] c = "w" -> "W" [] c = "x" -> "X"
      [] c = "y" -> "Y" [] c = "z" -> "Z" [] OTHER -> c

\* str.capitalize()
Capitalize(s) == IF Len(s) = 0 THEN s ELSE UpperChar(Head(s)) \o Lower(Tail(s))

\* ', '.join(items)
RECURSIVE JoinComma(_)
JoinComma(items) ==
    IF Len(items) = 0 THEN ""
    ELSE IF Len(items) = 1 THEN items[1]
    ELSE items[1] \o ", " \o JoinComma(Tail(items))

\* "Required" if q.get('required') else "Optional"
RequiredText(q) == IF Flag(q, "required") THEN "Required" ELSE "Optional"

(***************************************************************************)
(* The header line each block opens with.                                  *)
(***************************************************************************)
Header(cat) ==
    CASE cat = "registration" -> "=== REGISTRATION INFORMATION ==="
      [] cat = "team" -> "\n=== TEAM SIZE INFORMATION ==="
      [] cat = "themes" -> "\n=== THEMES AND PROBLEM STATEMENTS ==="
      [] cat = "timeline" -> "\n=== HACKATHON TIMELINE AND PHASES ==="
      [] cat = "evaluation" -> "\n=== EVALUATION CRITERIA ==="
      [] cat = "resources" -> "\n=== AVAILABLE RESOURCES ==="
      [] cat = "prizes" -> "\n=== PRIZES ==="
      [] cat = "events" -> "\n=== SCHEDULED EVENTS ==="
      [] cat = "contact" -> "\n=== CONTACT & LINKS ==="
      [] cat = "mentors" -> "\n=== MENTORS ==="
      [] cat = "judges" -> "\n=== JUDGES ==="
      [] cat = "partners" -> "\n=== PARTNERS & SPONSORS ==="
      [] cat = "faq" -> "\n=== FREQUENTLY ASKED QUESTIONS ==="
      [] cat = "rules" -> "\n=== RULES & REGULATIONS ==="
      [] cat = "eligibility" -> "\n=== ELIGIBILITY ==="
      [] cat = "location" -> "\n=== LOCATION & VENUE ==="
      [] cat = "announcements" -> "\n=== ANNOUNCEMENTS ==="
      [] cat = "stats" -> "\n=== PARTICIPATION STATISTICS ==="
      [] cat = "tags" -> "\n=== HACKATHON CATEGORY ==="
      [] cat = "winners" -> "\n=== WINNERS ==="
      [] cat = "contact_details" -> "\n=== CONTACT DETAILS ==="

OverviewHeader == "=== HACKATHON OVERVIEW ==="

(***************************************************************************)
(* Registration block.  Nothing is appended, not even the header, when the *)
(* record has no registration phase.                                       *)
(***************************************************************************)
RegistrationQuestionLine(idx, q) ==
    IF q.kind = "str" THEN Raise
    ELSE Ok(<< <<"  - {} ({}) - {}", Text(q.val, "label"), Text(q.val, "type"),
                 RequiredText(q.val)>> >>)

RegistrationBlock(hackathon_data, regNow) ==
    LET reg == FirstRegistration(Get(hackathon_data, "phases", <<>>))
        reg_phase == reg.val
        is_open == is_registration_currently_open(hackathon_data, regNow)
    IN  IF reg.kind = "raise" THEN Raise
        ELSE IF reg.kind = "none" THEN Ok(<<>>)
        ELSE Then(
            Ok(<< <<Header("registration")>>,
                  <<"Registration Period: {} to {}",
                    DateText(reg_phase, "start_datetime"),
                    DateText(reg_phase, "end_datetime")>>,
                  <<"Current Status: {}",
                    IF is_open THEN "OPEN - You can register now!"
                    ELSE "CLOSED - Registration has ended">>,
                  <<"Description: {}",
                    Get(reg_phase, "description",
                        "Registration period for the hackathon")>> >>),
            IF Truthy(hackathon_data, "registration_questions")
            THEN Then(Ok(<< <<"\nRegistration Questions Required:">> >>),
                      ConcatAll([i \in 1..Len(hackathon_data["registration_questions"]) |->
                      RegistrationQuestionLine(i, hackathon_data["registration_questions"][i])]))
            ELSE Ok(<<>>))

(***************************************************************************)
(* Team block.                                                             *)
(***************************************************************************)
\* min_size == 1, for min_size = d.get(key, 'Not specified')
IsOne(hackathon_data, key) == Has(hackathon_data, key) /\ hackathon_data[key] = 1

\* TeamBlock without the test of max_size for the solo-only line.
TeamBlockSoloByMinimum(hackathon_data) ==
    LET min_size == Num(hackathon_data, "min_team_size", "Not specified")
        max_size == Num(hackathon_data, "max_team_size", "Not specified")
    IN  Ok(<< <<Header("team")>>,
              <<"Minimum team size: {}", min_size>>,
              <<"Maximum team size: {}", max_size>> >>
           \o (IF IsOne(hackathon_data, "min_team_size")
               THEN << <<"This is a SOLO hackathon - only individual participation is allowed.">> >>
               ELSE <<>>))

TeamBlock(hackathon_data) ==
    LET min_size == Num(hackathon_data, "min_team_size", "Not specified")
        max_size == Num(hackathon_data, "max_team_size", "Not specified")
    IN  Ok(<< <<Header("team")>>,
              <<"Minimum team size: {}", min_size>>,
              <<"Maximum team size: {}", max_size>> >>
           \o (IF IsOne(hackathon_data, "min_team_size")
                  /\ IsOne(hackathon_data, "max_team_size")
               THEN << <<"This is a SOLO hackathon - only individual participation is allowed.">> >>
               ELSE IF IsOne(hackathon_data, "min_team_size")
               THEN << <<"Solo participation is allowed. Teams can have up to {} members.",
                         max_size>> >>
               ELSE <<>>))

(***************************************************************************)
(* Themes block.  theme['name'] and ps['name'] are subscripts, not .get:   *)
(* a missing name raises KeyError, a bare-string theme raises TypeError.   *)
(***************************************************************************)
ProblemStatementLines(idx, ps) ==
    IF ~Has(ps, "name") THEN Raise
    ELSE Ok(<< <<"     * {}", ps["name"]>>,
               <<"       {}", Get(ps, "description", "")>> >>)

ThemeLines(idx, theme) ==
    IF theme.kind = "str" THEN Raise
    ELSE IF ~Has(theme.val, "name") THEN Raise
    ELSE Then(
        Ok(<< <<"\n{}. {}", ToString(idx), theme.val["name"]>>,
              <<"   Description: {}",
                Get(theme.val, "description", "No description available")>> >>),
        IF Truthy(theme.val, "problem_statements")
        THEN Then(Ok(<< <<"   Problem Statements ({}):",
                          ToString(Len(theme.val["problem_statements"]))>> >>),
                  ConcatAll([i \in 1..Len(theme.val["problem_statements"]) |->
                      ProblemStatementLines(i, theme.val["problem_statements"][i])]))
        ELSE Ok(<<>>))

ThemesBlock(hackathon_data) ==
    LET themes == Get(hackathon_data, "themes", <<>>) IN
    Then(Ok(<< <<Header("themes")>>,
               <<"Total number of themes: {}", ToString(Len(themes))>> >>),
         ConcatAll([i \in 1..Len(themes) |->
                      ThemeLines(i, themes[i])]))

(***************************************************************************)
(* Timeline block.                                                         *)
(***************************************************************************)
SubmissionQuestionLine(idx, sq) ==
    Ok(<< <<"     - {} (Type: {}) - {}", Text(sq, "label"), Text(sq, "type"),
            RequiredText(sq)>> >>)

PhaseLines(idx, phase) ==
    IF phase.kind = "str" THEN Raise
    ELSE LET p == phase.val IN
    Then(
        Ok(<< <<"\n{}. {}", ToString(idx), Text(p, "name")>>,
              <<"   Period: {} to {}", DateText(p, "start_datetime"),
                DateText(p, "end_datetime")>>,
              <<"   Type: {}", Text(p, "type")>> >>
           \o When(Truthy(p, "description"),
                   << <<"   Description: {}", Text(p, "description")>> >>)),
        Then(
            IF Truthy(p, "submission_questions")
            THEN Then(Ok(<< <<"   Submission Requirements:">> >>),
                      ConcatAll([i \in 1..Len(p["submission_questions"]) |->
                      SubmissionQuestionLine(i, p["submission_questions"][i])]))
            ELSE Ok(<<>>),
            Ok(When(Flag(p, "is_elimination_round"),
                    << <<"   This is an ELIMINATION ROUND">> >>)
               \o << <<"   Evaluator: {}", Get(p, "evaluator", "Not specified")>> >>)))

TimelineBlock(hackathon_data) ==
    LET phases == Get(hackathon_data, "phases", <<>>) IN
    Then(Ok(<< <<Header("timeline")>>,
               <<"Overall Duration: {} to {}",
                 DateText(hackathon_data, "start_datetime"),
                 DateText(hackathon_data, "end_datetime")>>,
               <<"\nTotal Phases: {}", ToString(Len(phases))>> >>),
         ConcatAll([i \in 1..Len(phases) |->
                      PhaseLines(i, phases[i])]))

(***************************************************************************)
(* Evaluation block.  A metrics map is held as the sequence of its         *)
(* <<criterion, points>> items in insertion order.                         *)
(***************************************************************************)
RECURSIVE SumPoints(_)
SumPoints(metrics) ==
    IF Len(metrics) = 0 THEN 0 ELSE Head(metrics)[2] + SumPoints(Tail(metrics))

\* PercentText that drops the fraction instead of rounding.
PercentTextTruncating(points, total_points) ==
    ToString((points * 100) \div total_points)

\* f"{points / total_points * 100:.0f}" for total_points > 0: the quotient
\* rounded to the nearest integer, ties to even, "-0" for a negative value
\* that rounds to zero.  The arithmetic here is exact; CPython's float
\* arithmetic gives the same text for all points in -5..60 and totals in
\* 1..60 but three ties of total 40 (23, 49 and 51 points), where the float
\* product falls beside the tie (23 / 40 * 100 = 57.49999999999999).
PercentText(points, total_points) ==
    LET n == points * 100
        q == n \div total_points
        r == n % total_points
        rounded == IF 2 * r > total_points THEN q + 1
                   ELSE IF 2 * r < total_points THEN q
                   ELSE IF q % 2 = 0 THEN q ELSE q + 1
    IN  IF rounded = 0 /\ n < 0 THEN "-0" ELSE ToString(rounded)

MetricGroupLines(idx, metric_group) ==
    IF ~Truthy(metric_group, "metrics") THEN Ok(<<>>)
    ELSE LET metrics == metric_group["metrics"]
             total_points == SumPoints(metrics)
         IN  Ok(<< <<"\nTotal Points: {}", ToString(total_points)>> >>
                \o [i \in 1..Len(metrics) |->
                      <<"  * {}: {} points ({}%)", metrics[i][1],
                        ToString(metrics[i][2]),
                        IF total_points > 0
                        THEN PercentText(metrics[i][2], total_points)
                        ELSE "0">>])

EvaluationPhaseLines(idx, phase) ==
    IF phase.kind = "str" THEN Raise
    ELSE LET p == phase.val IN
         IF ~Truthy(p, "evaluation_metrics") THEN Ok(<<>>)
         ELSE Then(
             Ok(<< <<"\n{} Phase:", Text(p, "name")>>,
                   <<"Evaluator: {}", Get(p, "evaluator", "Not specified")>>,
                   <<"Elimination Round: {}",
                     IF Flag(p, "is_elimination_round") THEN "Yes" ELSE "No">>,
                   <<"\nScoring Breakdown:">> >>),
             ConcatAll([i \in 1..Len(p["evaluation_metrics"]) |->
                      MetricGroupLines(i, p["evaluation_metrics"][i])]))

EvaluationBlock(hackathon_data) ==
    Then(Ok(<< <<Header("evaluation")>> >>),
         ConcatAll([i \in 1..Len(Get(hackathon_data, "phases", <<>>)) |->
                      EvaluationPhaseLines(i, Get(hackathon_data, "phases", <<>>)[i])]))

(***************************************************************************)
(* Resources, prizes, events, contact & links.                             *)
(***************************************************************************)
ResourcesBlock(hackathon_data) ==
    Ok(<< <<Header("resources")>>,
          IF Truthy(hackathon_data, "resources")
          THEN <<"{}", hackathon_data["resources"]>>
          ELSE <<"No specific resources have been provided yet.">> >>)

PrizesBlock(hackathon_data) ==
    LET prizes == Get(hackathon_data, "prizes", <<>>) IN
    Ok(<< <<Header("prizes")>> >>
       \o (IF Len(prizes) > 0
           THEN [i \in 1..Len(prizes) |-> <<"  * {}", prizes[i]>>]
           ELSE << <<"Prize information has not been announced yet.">> >>))

EventLines(idx, event) ==
    IF event.kind = "str" THEN Raise
    ELSE Ok(<< <<"\n* {}", Text(event.val, "title")>>,
               <<"  Date/Time: {}", Text(event.val, "datetime")>> >>
            \o When(Truthy(event.val, "description"),
                    << <<"  Description: {}", Text(event.val, "description")>> >>))

EventsBlock(hackathon_data) ==
    LET events == Get(hackathon_data, "events", <<>>) IN
    Then(Ok(<< <<Header("events")>> >>),
         IF Len(events) > 0 THEN ConcatAll([i \in 1..Len(events) |->
                      EventLines(i, events[i])])
         ELSE Ok(<< <<"No specific events have been scheduled yet.">> >>))

\* links is held as the sequence of its <<platform, url>> items.
LinkLines(idx, item) ==
    Ok(When(Len(item[2]) > 0,
            << <<"  * {}: {}", Capitalize(item[1]), item[2]>> >>))

ContactBlock(hackathon_data) ==
    LET links == Get(hackathon_data, "links", <<>>)
        has_links == \E i \in 1..Len(links) : Len(links[i][2]) > 0
    IN  Then(Ok(<< <<Header("contact")>> >>),
             Then(ConcatAll([i \in 1..Len(links) |->
                      LinkLines(i, links[i])]),
                  Ok(When(~has_links,
                          << <<"Contact information will be provided soon.">> >>))))

(***************************************************************************)
(* Mentors, judges, partners, FAQ: an entry is a mapping or a bare string. *)
(***************************************************************************)
MentorLines(idx, mentor) ==
    IF mentor.kind = "dict"
    THEN LET m == mentor.val
             name == Get(m, "name", "Unknown")
             expertise == Get(m, "expertise", Get(m, "role", "Mentor"))
             bio == Get(m, "bio", Get(m, "description", ""))
         IN  Ok(<< <<"\n* **{}**", name>>, <<"  Expertise: {}", expertise>> >>
                \o When(Len(bio) > 0, << <<"  Bio: {}", bio>> >>))
    ELSE Ok(<< <<"* {}", mentor.val>> >>)

MentorsBlock(hackathon_data) ==
    LET mentors == Get(hackathon_data, "mentors", <<>>) IN
    Then(Ok(<< <<Header("mentors")>> >>),
         IF Len(mentors) > 0
         THEN Then(Ok(<< <<"Total mentors: {}", ToString(Len(mentors))>> >>),
                   ConcatAll([i \in 1..Len(mentors) |->
                      MentorLines(i, mentors[i])]))
         ELSE Ok(<< <<"No mentors have been assigned yet.">> >>))

JudgeLines(idx, judge) ==
    IF judge.kind = "dict"
    THEN LET j == judge.val
             name == Get(j, "name", "Unknown")
             title == Get(j, "title", Get(j, "role", "Judge"))
             company == Get(j, "company", Get(j, "organization", ""))
         IN  Ok(<< <<"\n* **{}**", name>>, <<"  Title: {}", title>> >>
                \o When(Len(company) > 0, << <<"  Company: {}", company>> >>))
    ELSE Ok(<< <<"* {}", judge.val>> >>)

JudgesBlock(hackathon_data) ==
    LET judges == Get(hackathon_data, "judges", <<>>) IN
    Then(Ok(<< <<Header("judges")>> >>),
         IF Len(judges) > 0
         THEN Then(Ok(<< <<"Total judges: {}", ToString(Len(judges))>> >>),
                   ConcatAll([i \in 1..Len(judges) |->
                      JudgeLines(i, judges[i])]))
         ELSE Ok(<< <<"Judges will be announced soon.">> >>))

PartnerLines(idx, partner) ==
    IF partner.kind = "dict"
    THEN Ok(<< <<"* {}", Get(partner.val, "name", "Unknown")>> >>)
    ELSE Ok(<< <<"* {}", partner.val>> >>)

PartnersBlock(hackathon_data) ==
    LET partners == Get(hackathon_data, "partners", <<>>) IN
    Then(Ok(<< <<Header("partners")>> >>),
         IF Len(partners) > 0 THEN ConcatAll([i \in 1..Len(partners) |->
                      PartnerLines(i, partners[i])])
         ELSE Ok(<< <<"Partner and sponsor information will be announced soon.">> >>))

\* A bare-string FAQ entry is skipped without a line.
FaqLines(idx, faq) ==
    IF faq.kind = "dict"
    THEN Ok(<< <<"\n**Q{}: {}**", ToString(idx), Get(faq.val, "question", "")>>,
               <<"A: {}", Get(faq.val, "answer", "")>> >>)
    ELSE Ok(<<>>)

FaqBlock(hackathon_data) ==
    LET faqs == Get(hackathon_data, "faq", <<>>) IN
    Then(Ok(<< <<Header("faq")>> >>),
         IF Len(faqs) > 0 THEN ConcatAll([i \in 1..Len(faqs) |->
                      FaqLines(i, faqs[i])])
         ELSE Ok(<< <<"No FAQs available yet.">> >>))

(***************************************************************************)
(* Rules, eligibility, location, announcements, statistics, tags, winners, *)
(* contact details.                                                        *)
(***************************************************************************)
RulesBlock(hackathon_data) ==
    Ok(<< <<Header("rules")>>,
          IF Truthy(hackathon_data, "rules")
          THEN <<"{}", hackathon_data["rules"]>>
          ELSE <<"Detailed rules will be published soon.">> >>)

EligibilityBlock(hackathon_data) ==
    LET eligibility == Get(hackathon_data, "eligibility", EmptyDict)
        profile_type == Get(eligibility, "profile_type", "any")
        details == Get(eligibility, "details", "")
        gender == Get(eligibility, "gender", "any")
    IN  Ok(<< <<Header("eligibility")>>,
              IF profile_type # "any" THEN <<"Profile Type: {}", profile_type>>
              ELSE <<"Open to all participants">> >>
           \o When(Len(details) > 0, << <<"Details: {}", details>> >>)
           \o When(gender # "any", << <<"Gender: {}", gender>> >>))

LocationBlock(hackathon_data) ==
    LET mode == Get(hackathon_data, "mode", "Not specified") IN
    Ok(<< <<Header("location")>>,
          <<"Mode: {}", Capitalize(mode)>>,
          IF Truthy(hackathon_data, "location")
          THEN <<"Location: {}", hackathon_data["location"]>>
          ELSE IF Lower(mode) = "online"
          THEN <<"This is an online hackathon - no physical location">>
          ELSE <<"Venue details will be announced soon.">> >>)

AnnouncementsBlock(hackathon_data) ==
    Ok(<< <<Header("announcements")>>,
          IF Truthy(hackathon_data, "announcements")
          THEN <<"{}", hackathon_data["announcements"]>>
          ELSE <<"No announcements at this time. Check back later for updates.">> >>)

StatsBlock(hackathon_data) ==
    Ok(<< <<Header("stats")>>,
          <<"Total Registered Participants: {}",
            Num(hackathon_data, "total_participants", "0")>>,
          <<"Total Page Views: {}", Num(hackathon_data, "total_views", "0")>> >>)

TagsBlock(hackathon_data) ==
    Ok(<< <<Header("tags")>> >>
       \o When(Truthy(hackathon_data, "type"),
               << <<"Type: {}", Capitalize(Get(hackathon_data, "type", ""))>> >>)
       \o When(Truthy(hackathon_data, "industry"),
               << <<"Industry: {}", Capitalize(Get(hackathon_data, "industry", ""))>> >>)
       \o When(Truthy(hackathon_data, "tags"),
               << <<"Tags: {}", JoinComma(Get(hackathon_data, "tags", <<>>))>> >>))

WinnersBlock(hackathon_data) ==
    Ok(<< <<Header("winners")>>,
          IF Flag(hackathon_data, "is_winners_announced")
          THEN <<"Winners have been announced!">>
          ELSE <<"Winners will be announced after the hackathon concludes.">> >>)

ContactDetailLines(idx, contact) ==
    IF contact.kind = "dict"
    THEN LET c == contact.val
             email == Get(c, "email", "")
             phone == Get(c, "phone", "")
         IN  Ok(<< <<"\n* {}", Get(c, "name", "Contact")>> >>
                \o When(Len(email) > 0, << <<"  Email: {}", email>> >>)
                \o When(Len(phone) > 0, << <<"  Phone: {}", phone>> >>))
    ELSE Ok(<< <<"* {}", contact.val>> >>)

\* Nothing is appended, not even the header, without contact details.
ContactDetailsBlock(hackathon_data) ==
    LET contact_details == Get(hackathon_data, "contact_details", <<>>) IN
    IF Len(contact_details) > 0
    THEN Then(Ok(<< <<Header("contact_details")>> >>),
              ConcatAll([i \in 1..Len(contact_details) |->
                      ContactDetailLines(i, contact_details[i])]))
    ELSE Ok(<<>>)

(***************************************************************************)
(* Overview block: the ten lines put at positions 0..9 of `sections`.      *)
(***************************************************************************)
\* str.upper()
RECURSIVE Upper(_)
Upper(s) == IF Len(s) = 0 THEN s ELSE UpperChar(Head(s)) \o Upper(Tail(s))

OverviewBlock(hackathon_data, statusNow) ==
    LET hackathon_status == get_hackathon_status(hackathon_data, statusNow) IN
    << <<OverviewHeader>>,
       <<"Name: {}", Text(hackathon_data, "name")>>,
       <<"Status: {}", Upper(hackathon_status)>>,
       <<"Tagline: {}", Text(hackathon_data, "tagline")>>,
       <<"About: {}", Text(hackathon_data, "about")>>,
       <<"Organizer: {}", Text(hackathon_data, "organizer_name")>>,
       <<"Mode: {}", Text(hackathon_data, "mode")>>,
       <<"Duration: {} to {}", DateText(hackathon_data, "start_datetime"),
         DateText(hackathon_data, "end_datetime")>>,
       <<"Total Participants: {}", Num(hackathon_data, "total_participants", "0")>>,
       <<"">> >>

(***************************************************************************)
(* extract_relevant_sections.  regNow and statusNow are the instants the   *)
(* two helpers read from the clock, each with its own datetime.now call.   *)
(* The result is the list `sections` that "\n".join turns into the text,   *)
(* or the exception that left the function.                                *)
(***************************************************************************)
CategoryBlock(cat, hackathon_data, regNow) ==
    CASE cat = "registration" -> RegistrationBlock(hackathon_data, regNow)
      [] cat = "team" -> TeamBlock(hackathon_data)
      [] cat = "themes" -> ThemesBlock(hackathon_data)
      [] cat = "timeline" -> TimelineBlock(hackathon_data)
      [] cat = "evaluation" -> EvaluationBlock(hackathon_data)
      [] cat = "resources" -> ResourcesBlock(hackathon_data)
      [] cat = "prizes" -> PrizesBlock(hackathon_data)
      [] cat = "events" -> EventsBlock(hackathon_data)
      [] cat = "contact" -> ContactBlock(hackathon_data)
      [] cat = "mentors" -> MentorsBlock(hackathon_data)
      [] cat = "judges" -> JudgesBlock(hackathon_data)
      [] cat = "partners" -> PartnersBlock(hackathon_data)
      [] cat = "faq" -> FaqBlock(hackathon_data)
      [] cat = "rules" -> RulesBlock(hackathon_data)
      [] cat = "eligibility" -> EligibilityBlock(hackathon_data)
      [] cat = "location" -> LocationBlock(hackathon_data)
      [] cat = "announcements" -> AnnouncementsBlock(hackathon_data)
      [] cat = "stats" -> StatsBlock(hackathon_data)
      [] cat = "tags" -> TagsBlock(hackathon_data)
      [] cat = "winners" -> WinnersBlock(hackathon_data)
      [] cat = "contact_details" -> ContactDetailsBlock(hackathon_data)

\* WantsOverview without the general-trigger test.
WantsOverviewUnmatchedOnly(question_lower) ==
    Len(MatchedCategories(question_lower)) = 0

\* if not matched_categories or any(word in question_lower for word in [...])
WantsOverview(question_lower) ==
    Len(MatchedCategories(question_lower)) = 0 \/ IsGeneral(question_lower)

extract_relevant_sections(hackathon_data, question, regNow, statusNow) ==
    LET question_lower == Lower(question)
        matched_categories == MatchedCategories(question_lower)
        blocks == ConcatAll([i \in 1..Len(matched_categories) |->
                     CategoryBlock(matched_categories[i], hackathon_data, regNow)])
    IN  IF blocks.raise THEN Raise
        ELSE IF WantsOverview(question_lower)
        THEN Ok(OverviewBlock(hackathon_data, statusNow) \o blocks.lines)
        ELSE Ok(blocks.lines)

(***************************************************************************)
(* The records the store may hold.  Any document can have been imported:   *)
(* the families below vary the overall window, the registration phase and  *)
(* its fallback flag, the presence of every optional field, and the shape  *)
(* of the collections' entries.                                            *)
(***************************************************************************)
\* d with key set to the datetime text v, or without key when v is Absent.
Absent == [form |-> "absent", local |-> 0, off |-> 0]
SetDate(d, key, v) == IF v = Absent THEN Without(d, {key}) ELSE (key :> v) @@ d

RegPhase(start, end) ==
    SetDate(SetDate([name |-> "Registration", type |-> "registration",
                     description |-> "Sign up on the portal"],
                    "start_datetime", start), "end_datetime", end)

JudgingPhase ==
    [name |-> "Finals", type |-> "judging",
     start_datetime |-> IsoZ(2), end_datetime |-> IsoZ(3),
     description |-> "Demo day",
     submission_questions |-> << [label |-> "Repository", type |-> "url",
                                  required |-> TRUE] >>,
     evaluation_metrics |->
        << [metrics |-> << <<"innovation", 30>>, <<"execution", 20>> >>],
           [metrics |-> << <<"bonus", 0>> >>] >>,
     is_elimination_round |-> TRUE, evaluator |-> "jury"]

FullRecord ==
    [_id |-> "h1", slug |-> "hack-one", name |-> "Hack One",
     tagline |-> "Build fast", about |-> "A student hackathon",
     organizer_name |-> "ACM", mode |-> "online", location |-> "Pune",
     start_datetime |-> IsoZ(1), end_datetime |-> IsoZ(2),
     is_registration_open |-> TRUE,
     phases |-> << Dict(RegPhase(IsoZ(1), IsoZ(2))), Dict(JudgingPhase) >>,
     registration_questions |->
        << Dict([label |-> "College", type |-> "text", required |-> TRUE]) >>,
     min_team_size |-> 1, max_team_size |-> 4,
     themes |->
        << Dict([name |-> "AI", description |-> "Machine learning",
                 problem_statements |->
                    << [name |-> "Assistant", description |-> "Daily tasks"] >>]) >>,
     resources |-> "Starter kit", prizes |-> <<"Cash", "Swag">>,
     events |-> << Dict([title |-> "Kickoff", datetime |-> "T1Z",
                         description |-> "Opening"]) >>,
     links |-> << <<"discord", "https://discord.example">>, <<"slack", "">> >>,
     mentors |-> << Dict([name |-> "Asha", expertise |-> "ML"]), Str("Ravi") >>,
     judges |-> << Dict([name |-> "Meera", title |-> "CTO"]), Str("Kiran") >>,
     partners |-> << Dict([name |-> "Acme"]), Str("Globex") >>,
     faq |-> << Dict([question |-> "Is it free?", answer |-> "Yes"]) >>,
     rules |-> "Original work only",
     eligibility |-> [profile_type |-> "student", details |-> "Any year",
                      gender |-> "any"],
     announcements |-> "Round one results are out",
     total_participants |-> 120, total_views |-> 900,
     tags |-> <<"ai", "web">>, industry |-> "education", type |-> "public",
     is_winners_announced |-> FALSE,
     contact_details |-> << Dict([name |-> "Desk", email |-> "desk@example.org"]),
                            Str("+91 00000") >>]

OptionalFields == (DOMAIN FullRecord) \ {"_id"}

\* A record with nothing but its id.
BareRecord == Without(FullRecord, OptionalFields)

\* Every single optional field absent, and all of them absent.
AbsenceRecords ==
    {FullRecord, BareRecord} \cup {Without(FullRecord, {f}) : f \in OptionalFields}

\* The datetime texts a window bound takes in the families below.
StartTexts == {Absent, NotIso, IsoZ(1), IsoOffset(2, 1), IsoNaive(1)}
EndTexts == {Absent, NotIso, IsoZ(2), IsoOffset(1, -1), IsoNaive(2)}
Windows == (StartTexts \X EndTexts) \cup {<<IsoZ(2), IsoZ(1)>>}

\* The overall window varies; no phases.
WindowRecords ==
    {SetDate(SetDate([_id |-> "h1", name |-> "Hack One"],
                     "start_datetime", w[1]), "end_datetime", w[2]) : w \in Windows}

\* The registration phase's window and the stored flag vary.
RegWindows ==
    {<<IsoZ(1), IsoZ(2)>>, <<IsoOffset(2, 1), IsoOffset(1, -1)>>, <<IsoZ(2), IsoZ(1)>>,
     <<IsoNaive(1), IsoNaive(2)>>, <<IsoZ(1), IsoNaive(2)>>, <<IsoNaive(1), IsoZ(2)>>,
     <<Absent, IsoZ(2)>>, <<IsoZ(1), Absent>>, <<NotIso, IsoZ(2)>>, <<IsoZ(1), NotIso>>}
Flags == {"absent", "true", "false"}
SetFlag(d, flag) ==
    IF flag = "absent" THEN d ELSE ("is_registration_open" :> (flag = "true")) @@ d

RegistrationRecords ==
    {SetFlag([_id |-> "h1", name |-> "Hack One",
              start_datetime |-> IsoZ(1), end_datetime |-> IsoZ(2),
              phases |-> << Dict([name |-> "Build", type |-> "build"]),
                            Dict(RegPhase(w[1], w[2])),
                            Dict(RegPhase(IsoZ(0), IsoZ(0))) >>], flag)
        : w \in RegWindows, flag \in {"true", "false"}}
    \cup {SetFlag([_id |-> "h1", phases |-> << Dict(RegPhase(NotIso, NotIso)) >>],
                  "absent")}
    \cup {SetFlag([_id |-> "h1", phases |-> << Dict(JudgingPhase) >>], flag)
            : flag \in Flags}

\* Nested entries with fields absent, empty collections, solo team sizes.
NestedRecords ==
    {[_id |-> "h1", themes |-> << Dict([description |-> "No name"]) >>],
     [_id |-> "h1", themes |-> << Dict([name |-> "AI",
                       problem_statements |-> << [description |-> "No name"] >>]) >>],
     [_id |-> "h1", themes |-> << Dict([name |-> "AI"]) >>,
      mentors |-> << Dict(EmptyDict) >>, judges |-> << Dict(EmptyDict) >>,
      partners |-> << Dict(EmptyDict) >>, faq |-> << Dict(EmptyDict), Str("Free?") >>,
      events |-> << Dict(EmptyDict) >>, contact_details |-> << Dict(EmptyDict) >>,
      registration_questions |-> << Dict(EmptyDict) >>,
      phases |-> << Dict([type |-> "registration"]), Dict(EmptyDict) >>,
      eligibility |-> EmptyDict, links |-> <<>>],
     [_id |-> "h1", mentors |-> <<>>, judges |-> <<>>, partners |-> <<>>,
      faq |-> <<>>, events |-> <<>>, prizes |-> <<>>, themes |-> <<>>,
      phases |-> <<>>, contact_details |-> <<>>, tags |-> <<>>,
      registration_questions |-> <<>>, links |-> << <<"discord", "">> >>,
      resources |-> "", rules |-> "", announcements |-> ""],
     [_id |-> "h1", min_team_size |-> 1, max_team_size |-> 1],
     [_id |-> "h1", min_team_size |-> 2, max_team_size |-> 4]}

SampleRecords ==
    AbsenceRecords \cup WindowRecords \cup RegistrationRecords \cup NestedRecords

(***************************************************************************)
(* The inputs of a chat request.                                           *)
(***************************************************************************)
\* One question per category that matches that category alone, then
\* questions that match several categories, a general trigger, or nothing.
Questions ==
    {"How do I enroll?", "team", "Which THEME?", "deadline", "criteria",
     "any template", "prize", "workshop", "discord", "advisor", "jury", "sponsor",
     "faq", "rule", "eligib", "venue", "news", "views", "industry", "result",
     "phone",
     "How do I register for this?", "can I join solo?", "Tell me about the mentors",
     "when", "email", "hello", "overview", "judges and category updates"}

\* The conversation turns a caller may send along: none, or MaxTurns of them.
History(n) ==
    [i \in 1..n |-> [role |-> IF i % 2 = 1 THEN "user" ELSE "assistant",
                     content |-> <<"turn " \o ToString(i)>>]]
Histories == {History(0), History(MaxTurns)}

\* Identifiers a caller may send: the stored one, an unknown one, none.
RequestIds == {"h1", "h2", ""}

\* Texts the Completion Client may answer with.
Answers ==
    {"Registration is open.", " I'm sorry, I COULDN'T find this information. "}

(***************************************************************************)
(* Prompt composition and response assembly of chat.                       *)
(***************************************************************************)
\* First line of the fixed instruction text.
SYSTEM_PROMPT == "You are an official Hackathon Support Assistant."

\* UserPrompt with the context cut to its first five lines.
UserPromptTruncated(context, question) ==
    <<"Context:\n{}\n\nUser Question: {}\n\nAnswer (use proper markdown formatting):",
      SubSeq(context, 1, IF Len(context) < 5 THEN Len(context) ELSE 5), question>>

\* The f-string user_prompt: its template, then the context and question.
UserPrompt(context, question) ==
    <<"Context:\n{}\n\nUser Question: {}\n\nAnswer (use proper markdown formatting):",
      context, question>>

\* The messages argument of groq_client.chat.completions.create.
Messages(context, question) ==
    << [role |-> "system", content |-> <<SYSTEM_PROMPT>>],
       [role |-> "user", content |-> UserPrompt(context, question)] >>

\* str.strip() of spaces.
RECURSIVE LStrip(_)
LStrip(s) == IF Len(s) > 0 /\ Head(s) = " " THEN LStrip(Tail(s)) ELSE s
RECURSIVE RStrip(_)
RStrip(s) ==
    IF Len(s) > 0 /\ SubSeq(s, Len(s), Len(s)) = " "
    THEN RStrip(SubSeq(s, 1, Len(s) - 1)) ELSE s
Strip(s) == RStrip(LStrip(s))

\* Confidence without answer.lower().
ConfidenceCaseSensitive(answer) ==
    IF Contains(answer, "couldn't find") THEN "low" ELSE "high"

\* "low" if "couldn't find" in answer.lower() else "high"
Confidence(answer) == IF Contains(Lower(answer), "couldn't find") THEN "low" ELSE "high"

NoResponse == [status |-> 0, detail |-> "", answer |-> "", confidence |-> "",
               timestamp |-> 0]
ErrorResponse(code, detail) == [NoResponse EXCEPT !.status = code, !.detail = detail]
ChatResponse(answer, timestamp) ==
    [NoResponse EXCEPT !.status = 200, !.answer = answer,
                       !.confidence = Confidence(answer), !.timestamp = timestamp]

(***************************************************************************)
(* HackathonDatabase.get_hackathon_by_id: the stored document, or None     *)
(* when there is none or when the driver raised.                           *)
(***************************************************************************)
None == [kind |-> "none", val |-> EmptyDict]

\* get_hackathon_by_id that answers a miss with an empty document.
get_hackathon_by_id_defaulting(collection, hackathon_id, driverOk) ==
    IF driverOk /\ hackathon_id \in DOMAIN collection
    THEN [kind |-> "doc", val |-> collection[hackathon_id]]
    ELSE [kind |-> "doc", val |-> EmptyDict]

get_hackathon_by_id(collection, hackathon_id, driverOk) ==
    IF driverOk /\ hackathon_id \in DOMAIN collection
    THEN [kind |-> "doc", val |-> collection[hackathon_id]]
    ELSE None

(***************************************************************************)
(* The import endpoints and the write operations of the record store.      *)
(* A document that arrives for import is a JSON value tagged by its Python *)
(* type: Dict(f), List(xs), Str(text), Number(n); a text is the sequence   *)
(* of its character codes, so that control characters can be told apart.   *)
(* The collection maps the _id of a document to the document: MongoDB's    *)
(* _id index is what find_one({"_id": ...}) and insert_one go through.     *)
(***************************************************************************)
\* The longest list of documents given to /admin/import-multiple-hackathons.
MaxBatch == 2

\* The number of identifiers the store generates for documents without _id.
MaxGenerated == 1

List(xs) == [kind |-> "list", val |-> xs]
Number(n) == [kind |-> "int", val |-> n]

\* The ObjectId the store generates for a document that arrives without _id.
ObjectId(n) == [kind |-> "oid", val |-> <<n>>]
ObjectIds == {ObjectId(n) : n \in 1..MaxGenerated}

\* A character outside the class [\x00-\x08\x0b\x0c\x0e-\x1f\x7f].
NotInClass(c) == ~(c \in 0..8 \/ c \in {11, 12} \/ c \in 14..31 \/ c = 127)

\* re.sub(r'[\x00-\x08\x0b\x0c\x0e-\x1f\x7f]', '', text)
clean_string(text) == SelectSeq(text, NotInClass)

\* clean_data: the values of a dict and the items of a list are cleaned,
\* the keys of a dict are kept as they are.
RECURSIVE clean_data(_)
clean_data(obj) ==
    CASE obj.kind = "dict" -> Dict([k \in DOMAIN obj.val |-> clean_data(obj.val[k])])
      [] obj.kind = "list" -> List([i \in 1..Len(obj.val) |-> clean_data(obj.val[i])])
      [] obj.kind = "str" -> Str(clean_string(obj.val))
      [] OTHER -> obj

\* find_control_chars of validate_hackathon.py: the issues found, each with
\* its path, position and character (the order of the list is left out).
RECURSIVE find_control_chars(_, _)
find_control_chars(obj, path) ==
    CASE obj.kind = "dict" ->
            UNION {find_control_chars(obj.val[key], path \o "." \o key)
                      : key \in DOMAIN obj.val}
      [] obj.kind = "list" ->
            UNION {find_control_chars(obj.val[i], path \o "[" \o ToString(i - 1) \o "]")
                      : i \in 1..Len(obj.val)}
      [] obj.kind = "str" ->
            {[path |-> path, position |-> i - 1, char |-> obj.val[i]]
                : i \in {j \in 1..Len(obj.val) :
                            obj.val[j] < 32 /\ obj.val[j] \notin {10, 9, 13}}}
      [] OTHER -> {}

(***************************************************************************)
(* HackathonDatabase.insert_hackathon: insert_one stores the document      *)
(* under its _id, or under a generated ObjectId when it has none, and      *)
(* raises DuplicateKeyError when the _id is taken; every exception (a      *)
(* driver failure included) is answered with False.  No other field is     *)
(* indexed: the code creates no index.                                     *)
(***************************************************************************)
insert_hackathon(collection, hackathon_data, oid, driverOk) ==
    LET doc == hackathon_data.val
        id == IF "_id" \in DOMAIN doc THEN doc["_id"] ELSE oid
    IN  IF ~driverOk \/ id \in DOMAIN collection
        THEN [ok |-> FALSE, collection |-> collection]
        ELSE [ok |-> TRUE,
              collection |-> (id :> Dict(("_id" :> id) @@ doc)) @@ collection]

(***************************************************************************)
(* HackathonDatabase.update_hackathon: update_one with $set overwrites the *)
(* named fields of the document with that _id.  The store rejects an empty *)
(* $set and a $set that would change _id; the result is modified_count > 0.*)
(***************************************************************************)
update_hackathon(collection, hackathon_id, update_data, driverOk) ==
    IF ~driverOk \/ hackathon_id \notin DOMAIN collection
       \/ DOMAIN update_data = {}
       \/ ("_id" \in DOMAIN update_data /\ update_data["_id"] # hackathon_id)
    THEN [ok |-> FALSE, collection |-> collection]
    ELSE LET updated == Dict(update_data @@ collection[hackathon_id].val) IN
         [ok |-> updated # collection[hackathon_id],
          collection |-> [collection EXCEPT ![hackathon_id] = updated]]

\* The ObjectIds in use, and the one the store generates next.
Generated(collection) == ObjectIds \cap DOMAIN collection
FreshId(collection) == ObjectId(Cardinality(Generated(collection)) + 1)

\* The documents of `hackathons` that arrive without _id.
IdLess(hackathons) ==
    {i \in 1..Len(hackathons) : "_id" \notin DOMAIN hackathons[i].val}

(***************************************************************************)
(* The documents a caller may send for import: texts with disallowed       *)
(* control characters (BEL 7, NUL 0, US 31, VT 11, FF 12, DEL 127) and     *)
(* with the allowed ones (LF 10, TAB 9, CR 13), in fields, in nested       *)
(* entries and in the _id; two documents with one slug; an _id sent twice; *)
(* a document without _id.                                                 *)
(***************************************************************************)
DocA ==
    Dict([_id |-> Str(<<97>>), slug |-> Str(<<115>>), name |-> Str(<<65, 7, 66>>),
          about |-> Str(<<10, 9, 13>>),
          themes |-> List(<< Dict([name |-> Str(<<0, 84>>)]), Str(<<84, 31>>) >>),
          total_participants |-> Number(5)])
DocB == Dict([_id |-> Str(<<98>>), slug |-> Str(<<115>>), name |-> Str(<<66>>)])
DocATwice == Dict([_id |-> Str(<<97>>), name |-> Str(<<67>>)])
DocNoId == Dict([slug |-> Str(<<116>>), tagline |-> Str(<<11, 12, 127>>)])
DocRawId == Dict([_id |-> Str(<<97, 7>>), name |-> Str(<<78>>)])

ImportDocuments == {DocA, DocB, DocATwice, DocNoId, DocRawId}

\* The lists of at most MaxBatch documents.
RECURSIVE Batches(_)
Batches(n) ==
    IF n = 0 THEN {<<>>}
    ELSE Batches(n - 1)
         \cup {Append(b, d) : b \in {c \in Batches(n - 1) : Len(c) = n - 1},
                              d \in ImportDocuments}

\* The identifiers and partial documents a caller of update_hackathon sends.
UpdateIds == {Str(<<97>>), Str(<<98>>), ObjectId(1)}
Partials ==
    {[slug |-> Str(<<115>>)], [name |-> Str(<<90>>)], [_id |-> Str(<<98>>)],
     EmptyDict}

(***************************************************************************)
(* State.                                                                  *)
(***************************************************************************)
VARIABLES
    store,           \* the collection: _id -> document
    pc,              \* where the chat handler stands: idle, found, extracted, done
    request,         \* the body of the request being handled
    hackathon_data,  \* the document the lookup returned
    reads,           \* the instants the two time helpers read during extraction
    context,         \* the lines of the extracted context
    sent,            \* the message lists given to the Completion Client, in order
    completion,      \* what the Completion Client did: none, answered, failed
    response         \* the response of the request

vars ==
    <<store, pc, request, hackathon_data, reads, context, sent, completion, response>>

NoRequest == [question |-> "", hackathon_id |-> "", history |-> <<>>]
NoReads == [reg |-> 0, status |-> 0]

Init ==
    /\ store \in {EmptyDict} \cup {("h1" :> r) : r \in SampleRecords}
    /\ pc = "idle"
    /\ request = NoRequest
    /\ hackathon_data = EmptyDict
    /\ reads = NoReads
    /\ context = <<>>
    /\ sent = <<>>
    /\ completion = "none"
    /\ response = NoResponse

(***************************************************************************)
(* chat, first step: a request arrives; the identifier is checked and      *)
(* looked up.  HTTPException passes through `except HTTPException: raise`. *)
(***************************************************************************)
ChatLookup ==
    /\ pc = "idle"
    /\ \E question \in Questions, hackathon_id \in RequestIds,
          history \in Histories, driverOk \in BOOLEAN :
        LET found == get_hackathon_by_id(store, hackathon_id, driverOk) IN
        /\ request' = [question |-> question, hackathon_id |-> hackathon_id,
                       history |-> history]
        /\ reads' = NoReads
        /\ context' = <<>>
        /\ sent' = <<>>
        /\ completion' = "none"
        /\ IF hackathon_id = ""
           THEN /\ response' = ErrorResponse(400, "hackathon_id is required")
                /\ hackathon_data' = EmptyDict
                /\ pc' = "done"
           ELSE IF found.kind = "none"
           THEN /\ response' = ErrorResponse(404, "Hackathon not found")
                /\ hackathon_data' = EmptyDict
                /\ pc' = "done"
           ELSE /\ response' = NoResponse
                /\ hackathon_data' = found.val
                /\ pc' = "found"
    /\ UNCHANGED store

(***************************************************************************)
(* chat, second step: extract_relevant_sections.  The clock is read once   *)
(* by each time helper; it may advance between the two readings.  An       *)
(* exception becomes the generic HTTP 500 of `except Exception`.           *)
(***************************************************************************)
ChatExtract ==
    /\ pc = "found"
    /\ \E regNow \in Time, statusNow \in Time :
        /\ statusNow \in {regNow, regNow + 1}
        /\ LET result == extract_relevant_sections(hackathon_data, request.question,
                                                   regNow, statusNow)
           IN  /\ reads' = [reg |-> regNow, status |-> statusNow]
               /\ IF result.raise
                  THEN /\ response' = ErrorResponse(500, "Error")
                       /\ context' = <<>>
                       /\ pc' = "done"
                  ELSE /\ response' = response
                       /\ context' = result.lines
                       /\ pc' = "extracted"
    /\ UNCHANGED <<store, request, hackathon_data, sent, completion>>

\* ChatComplete with one more attempt after a failed call.
ChatCompleteRetrying ==
    /\ pc = "extracted"
    /\ \/ \E answer \in Answers :
            /\ sent' = Append(sent, Messages(context, request.question))
            /\ completion' = "answered"
            /\ response' = ChatResponse(Strip(answer), reads.status)
       \/ /\ sent' = sent \o << Messages(context, request.question),
                                Messages(context, request.question) >>
          /\ completion' = "failed"
          /\ response' = ErrorResponse(500, "Error")
    /\ pc' = "done"
    /\ UNCHANGED <<store, request, hackathon_data, reads, context>>

(***************************************************************************)
(* chat, third step: the one call of the Completion Client and the         *)
(* response.  A failed call becomes the generic HTTP 500.                  *)
(***************************************************************************)
ChatComplete ==
    /\ pc = "extracted"
    /\ sent' = Append(sent, Messages(context, request.question))
    /\ \/ \E answer \in Answers :
            /\ completion' = "answered"
            /\ response' = ChatResponse(Strip(answer), reads.status)
       \/ /\ completion' = "failed"
          /\ response' = ErrorResponse(500, "Error")
    /\ pc' = "done"
    /\ UNCHANGED <<store, request, hackathon_data, reads, context>>

(***************************************************************************)
(* chat, last step: the response has gone to the caller.  The handler      *)
(* keeps nothing of a request.                                             *)
(***************************************************************************)
ChatReturn ==
    /\ pc = "done"
    /\ pc' = "idle"
    /\ request' = NoRequest
    /\ hackathon_data' = EmptyDict
    /\ reads' = NoReads
    /\ context' = <<>>
    /\ sent' = <<>>
    /\ completion' = "none"
    /\ response' = NoResponse
    /\ UNCHANGED store

Next == ChatLookup \/ ChatExtract \/ ChatComplete \/ ChatReturn

Spec == Init /\ [][Next]_vars

(***************************************************************************)
(* POST /admin/import-hackathon: the document is cleaned, then inserted.   *)
(***************************************************************************)
ImportHackathon ==
    /\ \E data \in ImportDocuments, driverOk \in BOOLEAN :
        /\ IdLess(<<data>>) # {} => Cardinality(Generated(store)) < MaxGenerated
        /\ LET cleaned_data == clean_data(data)
               result == insert_hackathon(store, cleaned_data, FreshId(store), driverOk)
           IN  /\ store' = result.collection
               /\ response' = IF result.ok
                               THEN [NoResponse EXCEPT !.status = 200,
                                        !.detail = "Hackathon data imported successfully"]
                               ELSE ErrorResponse(500, "Failed to import data")
    /\ UNCHANGED <<pc, request, hackathon_data, reads, context, sent, completion>>

(***************************************************************************)
(* POST /admin/import-multiple-hackathons: every document of the list is   *)
(* inserted as it arrived, one after the other; a failed insert is counted *)
(* and the loop goes on.                                                   *)
(***************************************************************************)
RECURSIVE InsertAll(_, _, _)
InsertAll(collection, hackathons, driverOk) ==
    IF Len(hackathons) = 0
    THEN [collection |-> collection, imported |-> 0, failed |-> 0]
    ELSE LET result == insert_hackathon(collection, Head(hackathons),
                                        FreshId(collection), driverOk)
             rest == InsertAll(result.collection, Tail(hackathons), driverOk)
         IN  [collection |-> rest.collection,
              imported |-> rest.imported + (IF result.ok THEN 1 ELSE 0),
              failed |-> rest.failed + (IF result.ok THEN 0 ELSE 1)]

ImportMultipleHackathons ==
    /\ \E hackathons \in Batches(MaxBatch), driverOk \in BOOLEAN :
        /\ Cardinality(IdLess(hackathons)) + Cardinality(Generated(store))
              <= MaxGenerated
        /\ LET result == InsertAll(store, hackathons, driverOk) IN
           /\ store' = result.collection
           /\ response' = [NoResponse EXCEPT !.status = 200,
                              !.detail = "completed",
                              !.answer = ToString(result.imported) \o " imported, "
                                         \o ToString(result.failed) \o " failed"]
    /\ UNCHANGED <<pc, request, hackathon_data, reads, context, sent, completion>>

(***************************************************************************)
(* A call of HackathonDatabase.update_hackathon.                           *)
(***************************************************************************)
UpdateHackathon ==
    /\ \E hackathon_id \in UpdateIds, update_data \in Partials, driverOk \in BOOLEAN :
        LET result == update_hackathon(store, hackathon_id, update_data, driverOk) IN
        /\ store' = result.collection
        /\ response' = [NoResponse EXCEPT !.status = IF result.ok THEN 200 ELSE 0]
    /\ UNCHANGED <<pc, request, hackathon_data, reads, context, sent, completion>>

\* The store starts empty; the chat handler is idle throughout.
StoreInit ==
    /\ store = EmptyDict
    /\ pc = "idle"
    /\ request = NoRequest
    /\ hackathon_data = EmptyDict
    /\ reads = NoReads
    /\ context = <<>>
    /\ sent = <<>>
    /\ completion = "none"
    /\ response = NoResponse

StoreNext == ImportHackathon \/ ImportMultipleHackathons \/ UpdateHackathon

StoreSpec == StoreInit /\ [][StoreNext]_vars

(***************************************************************************)
(* extract_relevant_sections on its own: the record and the question are   *)
(* drawn at the start, and the function is called on them, then called     *)
(* once more.  pc is found before the first call, extracted after it,      *)
(* again after the second call, done after a call that raised.  A call is  *)
(* made at the instant the call before it ended, or at the next one.       *)
(***************************************************************************)
\* The points of a criterion run from -1 to MaxPoints.
MaxPoints == 3
Points == (-1)..MaxPoints

\* A team size runs from 1 to MaxTeamSize; 0 stands for an absent field.
MaxTeamSize == 3
TeamSizes == 0..MaxTeamSize

\* One judging phase with one metric group of two criteria.
MetricRecords ==
    {[_id |-> "h1",
      phases |-> << Dict([name |-> "Finals", type |-> "judging",
                          evaluation_metrics |->
                             << [metrics |-> << <<"innovation", a>>,
                                                <<"execution", b>> >>] >>]) >>]
        : a \in Points, b \in Points}
    \cup {[_id |-> "h1",
           phases |-> << Dict([name |-> "Finals", type |-> "judging",
                               evaluation_metrics |->
                                  << [metrics |-> <<>>],
                                     [metrics |-> << <<"design", 1>>, <<"impact", 1>>,
                                                     <<"pitch", 1>> >>] >>]) >>]}

\* d with the integer field key set to n, or without it when n is 0.
SetSize(d, key, n) == IF n = 0 THEN d ELSE (key :> n) @@ d

TeamRecords ==
    {SetSize(SetSize([_id |-> "h1"], "min_team_size", lo), "max_team_size", hi)
        : lo \in TeamSizes, hi \in TeamSizes}

\* The collections of a record, and records in which the entries of one
\* collection are bare strings (for registration_questions, next to a
\* registration phase, without which the questions are not read).
Collections ==
    {"themes", "phases", "mentors", "judges", "partners", "faq", "events",
     "registration_questions", "contact_details"}
BareEntryRecords ==
    {(c :> << Str("Bare entry") >>) @@ [_id |-> "h1"]
        : c \in Collections \ {"registration_questions"}}
    \cup {[_id |-> "h1", phases |-> << Dict(RegPhase(IsoZ(1), IsoZ(2))) >>,
           registration_questions |-> << Str("Bare entry") >>],
          [_id |-> "h1", phases |-> << Dict(RegPhase(IsoZ(1), IsoZ(2))),
                                       Str("Bare entry") >>],
          [_id |-> "h1", mentors |-> << Str("Ravi"), Dict([name |-> "Asha"]) >>,
           judges |-> << Str("Kiran") >>, partners |-> << Str("Globex") >>,
           contact_details |-> << Str("+91 00000") >>, faq |-> << Str("Free?") >>]}

\* Questions that ask for the blocks that read the collections.
CollectionQuestions ==
    {"How do I enroll?", "Which THEME?", "deadline", "criteria", "workshop",
     "advisor", "jury", "sponsor", "faq", "phone"}

\* Questions that ask for the registration block, the overview, or both.
TimeQuestions == {"overview", "How do I enroll?", "When can I register?"}

\* Questions that are one keyword and nothing else.
KeywordQuestions == {"partner", "category", "prize"}

\* The pairs of record and question the function is called on.
ExtractCases ==
    (({FullRecord, BareRecord} \cup NestedRecords) \X Questions)
    \cup (BareEntryRecords \X CollectionQuestions)
    \cup ((WindowRecords \cup RegistrationRecords \cup {FullRecord}) \X TimeQuestions)
    \cup (MetricRecords \X {"criteria"})
    \cup (TeamRecords \X {"team", "can I join solo?"})
    \cup ({FullRecord} \X KeywordQuestions)

ExtractInit ==
    /\ \E case \in ExtractCases :
        /\ hackathon_data = case[1]
        /\ store = ("h1" :> case[1])
        /\ request = [question |-> case[2], hackathon_id |-> "h1", history |-> <<>>]
    /\ pc = "found"
    /\ reads = NoReads
    /\ context = <<>>
    /\ sent = <<>>
    /\ completion = "none"
    /\ response = NoResponse

\* ExtractAgain with `sections` kept from the call before.
ExtractAgainAccumulating ==
    /\ pc \in {"extracted", "done"}
    /\ \E regNow \in Time, statusNow \in Time :
        /\ regNow \in {reads.status, reads.status + 1}
        /\ statusNow \in {regNow, regNow + 1}
        /\ LET result == extract_relevant_sections(hackathon_data, request.question,
                                                   regNow, statusNow)
           IN  /\ reads' = [reg |-> regNow, status |-> statusNow]
               /\ IF result.raise
                  THEN /\ response' = ErrorResponse(500, "Error")
                       /\ context' = <<>>
                       /\ pc' = "done"
                  ELSE /\ response' = NoResponse
                       /\ context' = context \o result.lines
                       /\ pc' = "again"
    /\ UNCHANGED <<store, request, hackathon_data, sent, completion>>

\* One more call of extract_relevant_sections(hackathon_data, question).
ExtractAgain ==
    /\ pc \in {"extracted", "done"}
    /\ \E regNow \in Time, statusNow \in Time :
        /\ regNow \in {reads.status, reads.status + 1}
        /\ statusNow \in {regNow, regNow + 1}
        /\ LET result == extract_relevant_sections(hackathon_data, request.question,
                                                   regNow, statusNow)
           IN  /\ reads' = [reg |-> regNow, status |-> statusNow]
               /\ IF result.raise
                  THEN /\ response' = ErrorResponse(500, "Error")
                       /\ context' = <<>>
                       /\ pc' = "done"
                  ELSE /\ response' = NoResponse
                       /\ context' = result.lines
                       /\ pc' = "again"
    /\ UNCHANGED <<store, request, hackathon_data, sent, completion>>

ExtractNext == ChatExtract \/ ExtractAgain

ExtractSpec == ExtractInit /\ [][ExtractNext]_vars

(***************************************************************************)
(* Properties.  In a state with pc = "extracted" the variable context is   *)
(* the output of extract_relevant_sections for hackathon_data and          *)
(* request.question, computed at the instants in reads.                    *)
(***************************************************************************)
CategorySet == {Categories[k] : k \in 1..Len(Categories)}
CatIndex(cat) == CHOOSE k \in 1..Len(Categories) : Categories[k] = cat

\* Line i of the context is the header of cat's block.
HeaderAt(i, cat) == context[i] = <<Header(cat)>>
HeaderLines == {i \in DOMAIN context : \E cat \in CategorySet : HeaderAt(i, cat)}
OverviewLines == {i \in DOMAIN context : context[i] = <<OverviewHeader>>}

\* The categories the question matches, and whether it holds a general word.
QuestionLower == Lower(request.question)
MatchedSet == {cat \in CategorySet : Matches(cat, QuestionLower)}

\* What the specification takes a datetime text to denote: any ISO-8601
\* text, with the Z suffix, an explicit offset or neither, is an instant.
SpecParses(d, key) == Has(d, key) /\ d[key].form \in {"Z", "offset", "naive"}
SpecInstant(d, key) == d[key].local - d[key].off

SpecStatus(d, now) ==
    IF ~SpecParses(d, "start_datetime") \/ ~SpecParses(d, "end_datetime")
    THEN "unknown"
    ELSE IF now < SpecInstant(d, "start_datetime") THEN "upcoming"
    ELSE IF now > SpecInstant(d, "end_datetime") THEN "ended"
    ELSE "ongoing"

\* C1: for every record and instant, the overall status is unknown when a
\* bound of the window is missing or does not parse, upcoming when
\* now < start, ended when now > end, and ongoing otherwise (both bounds
\* included).  Stated on the status line of the overview block.
C1_StatusFollowsWindow ==
    (pc = "extracted" /\ OverviewLines # {}) =>
        context[3] = <<"Status: {}", Upper(SpecStatus(hackathon_data, reads.status))>>

\* The first phase of type registration, for records of structured phases.
SpecRegistrationPhase(d) == FirstRegistration(Get(d, "phases", <<>>))

SpecOpen(d, now) ==
    LET reg == SpecRegistrationPhase(d) IN
    IF reg.kind = "phase" /\ SpecParses(reg.val, "start_datetime")
                          /\ SpecParses(reg.val, "end_datetime")
    THEN SpecInstant(reg.val, "start_datetime") <= now
         /\ now <= SpecInstant(reg.val, "end_datetime")
    ELSE Has(d, "is_registration_open") /\ d["is_registration_open"]

\* C2: registration is open iff start <= now <= end of the first
\* registration phase when both bounds parse, and equals the stored flag
\* (false when absent) otherwise; for a registration question on a record
\* with a registration phase the block says OPEN exactly when it is open.
C2_RegistrationOpenness ==
    (pc = "extracted" /\ "registration" \in MatchedSet
        /\ SpecRegistrationPhase(hackathon_data).kind = "phase") =>
        \E i \in DOMAIN context :
            context[i] = <<"Current Status: {}",
                           IF SpecOpen(hackathon_data, reads.reg)
                           THEN "OPEN - You can register now!"
                           ELSE "CLOSED - Registration has ended">>

\* C3: every category the question matches contributes its header to the
\* output even when the record holds no data for it, with a "none yet"
\* message after it (no mentors: "No mentors have been assigned yet.").
C3_MatchedCategoryRendered ==
    pc = "extracted" =>
        \A cat \in MatchedSet :
            \E i \in DOMAIN context :
                /\ HeaderAt(i, cat)
                /\ (cat = "mentors" /\ Len(Get(hackathon_data, "mentors", <<>>)) = 0)
                    => /\ i + 1 \in DOMAIN context
                       /\ context[i + 1] = <<"No mentors have been assigned yet.">>

\* C4: the overview block is in the output iff no category matched or the
\* question holds a general-trigger keyword; when present it is the first
\* block, ahead of every category block; the category blocks stand in the
\* order in which they were appended.
C4_OverviewFirst ==
    pc = "extracted" =>
        /\ (OverviewLines # {}) <=> (MatchedSet = {} \/ IsGeneral(QuestionLower))
        /\ OverviewLines \subseteq {1}
        /\ OverviewLines # {} => \A i \in HeaderLines : i > 1
        /\ \A i, j \in HeaderLines : \A a, b \in CategorySet :
              (i < j /\ HeaderAt(i, a) /\ HeaderAt(j, b)) => CatIndex(a) < CatIndex(b)

\* C4 witness: a general question that also matches the mentors category,
\* answered with the overview first and the mentors block after it.
C4_Witness ==
    /\ pc = "extracted"
    /\ request.question = "Tell me about the mentors"
    /\ context[1] = <<OverviewHeader>>
    /\ \E i \in DOMAIN context : i > 1 /\ HeaderAt(i, "mentors")

\* C5: a question that holds a keyword of exactly one category yields
\* exactly one category block, preceded by the overview block iff the
\* question also holds a general-trigger word.
C5_SingleCategorySingleBlock ==
    (pc = "extracted" /\ Cardinality(MatchedSet) = 1) =>
        /\ Cardinality(HeaderLines) = 1
        /\ (OverviewLines # {}) <=> IsGeneral(QuestionLower)

\* The entries of the collections read with .get or a subscript are all
\* mappings (no bare string among them).
EntriesStructured(d) ==
    \A key \in {"themes", "phases", "events", "registration_questions"} :
        \A i \in 1..Len(Get(d, key, <<>>)) : d[key][i].kind = "dict"

\* The request ended in the generic error before the completion call.
ExtractionFailed == pc = "done" /\ response.status = 500 /\ completion = "none"

\* C6: whatever optional fields or collections are absent from the record,
\* fields of nested entries included, the chat request does not fail for
\* it: extraction returns a text.
C6_AbsentFieldsNeverFail ==
    EntriesStructured(hackathon_data) => ~ExtractionFailed

\* C7 as claimed: an identifier that resolves to no record ends the
\* request with HTTP 404, without extraction or completion call.
C7_UnknownIdIs404 ==
    (pc # "idle" /\ request.hackathon_id \notin DOMAIN store) =>
        /\ pc = "done" /\ response.status = 404
        /\ context = <<>> /\ sent = <<>> /\ completion = "none"

\* C7 amended: a non-empty identifier that resolves to no record ends the
\* request with HTTP 404 and an empty one with HTTP 400, never with the
\* generic 500; in both cases nothing is extracted and the Completion
\* Client is not called.
C7_UnknownIdRejected ==
    (pc # "idle" /\ request.hackathon_id \notin DOMAIN store) =>
        /\ pc = "done"
        /\ response.status = IF request.hackathon_id = "" THEN 400 ELSE 404
        /\ hackathon_data = EmptyDict
        /\ context = <<>> /\ sent = <<>> /\ completion = "none"

\* C7 witness: an unknown identifier, with a record in the store, got 404.
C7_Witness ==
    /\ pc = "done" /\ request.hackathon_id = "h2" /\ store # EmptyDict
    /\ response.status = 404 /\ sent = <<>>

\* C8: when the completion call fails for a request whose record was
\* found, the request ends with HTTP 500 and exactly one completion call
\* was made; no request makes more than one.
C8_FailureNotRetried ==
    /\ Len(sent) <= 1
    /\ completion = "failed" =>
          /\ pc = "done" /\ response.status = 500
          /\ request.hackathon_id \in DOMAIN store
          /\ Len(sent) = 1

\* C8 witness: a request whose completion call failed.
C8_Witness ==
    pc = "done" /\ completion = "failed" /\ response.status = 500 /\ Len(sent) = 1

\* C9: the messages sent hold exactly the most recent min(n, 10) of the n
\* prior turns, verbatim and in order, between the system message and the
\* final user message.
C9_HistoryForwarded ==
    \A k \in DOMAIN sent :
        LET history == request.history
            n == Len(history)
            m == IF n > 10 THEN 10 ELSE n
        IN  /\ Len(sent[k]) = m + 2
            /\ \A i \in 1..m : sent[k][1 + i] = history[n - m + i]

\* C10 as claimed: the messages begin with one system message holding
\* SYSTEM_PROMPT and end with one user message that is the Context:
\* header, the context, the question header and the question.
C10_PromptEndsWithQuestion ==
    \A k \in DOMAIN sent :
        /\ sent[k][1] = [role |-> "system", content |-> <<SYSTEM_PROMPT>>]
        /\ sent[k][Len(sent[k])] =
              [role |-> "user",
               content |-> <<"Context:\n{}\n\nUser Question: {}",
                             context, request.question>>]

\* C10 amended: the messages begin with exactly one system message holding
\* SYSTEM_PROMPT and end with one user message that is the Context:
\* header, the whole context, the question header, the raw question and
\* then the literal "Answer (use proper markdown formatting):".
C10_PromptShape ==
    \A k \in DOMAIN sent :
        /\ sent[k][1] = [role |-> "system", content |-> <<SYSTEM_PROMPT>>]
        /\ Cardinality({i \in DOMAIN sent[k] : sent[k][i].role = "system"}) = 1
        /\ Cardinality({i \in DOMAIN sent[k] : sent[k][i].role = "user"}) = 1
        /\ sent[k][Len(sent[k])] =
              [role |-> "user",
               content |->
                 <<"Context:\n{}\n\nUser Question: {}\n\nAnswer (use proper markdown formatting):",
                   context, request.question>>]

\* C10 witness: a prompt was sent whose context has more than ten lines.
C10_Witness ==
    pc = "done" /\ Len(sent) = 1 /\ Len(context) > 10 /\ completion = "answered"

(***************************************************************************)
(* Properties of the import endpoints and the store (StoreSpec).           *)
(***************************************************************************)
\* Every text held in a JSON value, at any depth.
RECURSIVE Texts(_)
Texts(obj) ==
    CASE obj.kind = "dict" -> UNION {Texts(obj.val[k]) : k \in DOMAIN obj.val}
      [] obj.kind = "list" -> UNION {Texts(obj.val[i]) : i \in 1..Len(obj.val)}
      [] obj.kind = "str" -> {obj.val}
      [] OTHER -> {}

\* A code below 32 other than newline, tab and carriage return.
Disallowed(c) == c < 32 /\ c \notin {10, 9, 13}

\* C11: after any sequence of calls of the two import endpoints, no text
\* of a stored record holds a disallowed control character, and
\* find_control_chars reports no issue on any stored record.
C11_NoControlCharsPersisted ==
    \A id \in DOMAIN store :
        /\ \A text \in Texts(store[id]) : \A i \in DOMAIN text : ~Disallowed(text[i])
        /\ find_control_chars(store[id], "") = {}

\* The slug of a stored record, when it has one.
HasSlug(id) == "slug" \in DOMAIN store[id].val

\* C12: no two stored records share an id, no two stored records that have
\* a slug share it, the id of a stored record never changes, no stored
\* record disappears, and an update changes only the fields named in the
\* partial, of the one record it names.
C12_StoreInvariants ==
    /\ [](\A a, b \in DOMAIN store :
            a # b => /\ store[a].val["_id"] # store[b].val["_id"]
                     /\ (HasSlug(a) /\ HasSlug(b)) =>
                            store[a].val["slug"] # store[b].val["slug"])
    /\ [][\A id \in DOMAIN store :
            /\ id \in DOMAIN store'
            /\ store'[id].val["_id"] = store[id].val["_id"]]_vars
    /\ [][UpdateHackathon =>
            \E hackathon_id \in UpdateIds, update_data \in Partials :
                /\ DOMAIN store' = DOMAIN store
                /\ \A id \in DOMAIN store :
                      \A field \in DOMAIN store[id].val :
                          (id # hackathon_id \/ field \notin DOMAIN update_data) =>
                              /\ field \in DOMAIN store'[id].val
                              /\ store'[id].val[field] = store[id].val[field]]_vars

Extracted == pc \in {"extracted", "again"}

\* The structured phases of the record that carry evaluation metrics, and
\* the metric groups of a phase whose metrics map is not empty.
PhasesOf(d) == Get(d, "phases", <<>>)
AllStructured(entries) == \A i \in DOMAIN entries : entries[i].kind = "dict"
ScoredPhases(d) ==
    {i \in DOMAIN PhasesOf(d) :
        /\ PhasesOf(d)[i].kind = "dict"
        /\ Has(PhasesOf(d)[i].val, "evaluation_metrics")}
ScoredGroups(phase) ==
    {g \in DOMAIN phase["evaluation_metrics"] :
        /\ Has(phase["evaluation_metrics"][g], "metrics")
        /\ Len(phase["evaluation_metrics"][g]["metrics"]) > 0}

\* The sum of the points of a metrics map.
RECURSIVE SpecTotal(_)
SpecTotal(metrics) ==
    IF metrics = <<>> THEN 0 ELSE metrics[1][2] + SpecTotal(Tail(metrics))

\* The texts of the integers nearest to points * 100 / total (both of them
\* when the quotient lies half way), for a positive total; "0" otherwise.
Abs(n) == IF n < 0 THEN 0 - n ELSE n
SpecPercents(points, total) ==
    IF total <= 0 THEN {"0"}
    ELSE {ToString(n) : n \in {m \in (-100 * MaxPoints - 100)..(100 * MaxPoints + 100) :
                                  2 * Abs(m * total - points * 100) <= total}}

\* C14: for an evaluation question, every metric group with a non-empty
\* metrics map is reported with the sum of its points as the total and, in
\* the lines after it, each criterion with points * 100 / total rounded to
\* an integer when the total is positive and with 0 when it is not; the
\* call does not fail on any integer points.
C14_PercentagesOfTotal ==
    /\ (pc = "done" /\ "evaluation" \in MatchedSet) =>
          (MatchedSet # {"evaluation"} \/ ~AllStructured(PhasesOf(hackathon_data)))
    /\ (Extracted /\ "evaluation" \in MatchedSet) =>
        \A i \in ScoredPhases(hackathon_data) :
            \A g \in ScoredGroups(PhasesOf(hackathon_data)[i].val) :
                LET metrics == PhasesOf(hackathon_data)[i].val["evaluation_metrics"][g]["metrics"]
                    total == SpecTotal(metrics)
                IN  \E k \in DOMAIN context :
                        /\ context[k] = <<"\nTotal Points: {}", ToString(total)>>
                        /\ \A j \in DOMAIN metrics :
                              /\ k + j \in DOMAIN context
                              /\ \E pct \in SpecPercents(metrics[j][2], total) :
                                    context[k + j] =
                                        <<"  * {}: {} points ({}%)", metrics[j][1],
                                          ToString(metrics[j][2]), pct>>

\* C14 witness: groups of 30 and 20 points and of 0 points have been
\* reported: total 50 with 60% and 40%, total 0 with 0%.
C14_Witness ==
    /\ Extracted
    /\ \E k \in DOMAIN context :
            /\ context[k] = <<"\nTotal Points: {}", "50">>
            /\ context[k + 1] = <<"  * {}: {} points ({}%)", "innovation", "30", "60">>
            /\ context[k + 2] = <<"  * {}: {} points ({}%)", "execution", "20", "40">>
            /\ context[k + 3] = <<"\nTotal Points: {}", "0">>
            /\ context[k + 4] = <<"  * {}: {} points ({}%)", "bonus", "0", "0">>

(***************************************************************************)
(* Properties of the response of chat (Spec).                              *)
(***************************************************************************)
\* The phrase occurs in the text at some offset, letters compared without
\* regard to case.
OccursIgnoringCase(text, phrase) ==
    \E i \in 0..(Len(text) - Len(phrase)) :
        \A j \in 1..Len(phrase) :
            UpperChar(SubSeq(text, i + j, i + j)) = UpperChar(SubSeq(phrase, j, j))

\* C15: the confidence label of a successful response is low when the
\* answer holds the phrase "couldn't find" in any letter case, and high
\* otherwise.
C15_ConfidenceLabel ==
    (pc = "done" /\ response.status = 200) =>
        response.confidence =
            IF OccursIgnoringCase(response.answer, "couldn't find") THEN "low" ELSE "high"

\* C15 witness: an answer with the phrase in upper-case letters has been
\* labelled low.
C15_Witness ==
    /\ pc = "done" /\ response.status = 200 /\ response.confidence = "low"
    /\ Contains(response.answer, "COULDN'T find")

(***************************************************************************)
(* Properties of the team block (ExtractSpec).                             *)
(***************************************************************************)
Lines == {context[i] : i \in DOMAIN context}
SoloOnlyLines ==
    {l \in Lines :
        l[1] = "This is a SOLO hackathon - only individual participation is allowed."}
SoloAllowedLines ==
    {l \in Lines :
        l[1] = "Solo participation is allowed. Teams can have up to {} members."}
SizeIs(d, key, n) == key \in DOMAIN d /\ d[key] = n

\* C16: for a question that matches the team category, the team block has
\* the solo-only line when min_team_size and max_team_size are both 1, the
\* line "solo allowed, up to max" (and not the solo-only line) when
\* min_team_size is 1 and max_team_size is anything else, and neither line
\* for any other record.
C16_SoloLines ==
    (Extracted /\ "team" \in MatchedSet) =>
        LET min_one == SizeIs(hackathon_data, "min_team_size", 1)
            max_one == SizeIs(hackathon_data, "max_team_size", 1)
        IN  /\ (SoloOnlyLines # {}) <=> (min_one /\ max_one)
            /\ (SoloAllowedLines # {}) <=> (min_one /\ ~max_one)
            /\ \A l \in SoloAllowedLines :
                  l[2] = Num(hackathon_data, "max_team_size", "Not specified")

\* C16 witness: "can I join solo?" on a record with both sizes 1 has given
\* the solo-only line.
C16_Witness ==
    /\ Extracted /\ request.question = "can I join solo?"
    /\ SizeIs(hackathon_data, "min_team_size", 1)
    /\ SizeIs(hackathon_data, "max_team_size", 1)
    /\ SoloOnlyLines # {}

(***************************************************************************)
(* Properties of the keyword lists (ExtractSpec).                          *)
(***************************************************************************)
KeywordSet(cat) == {KeywordsOf(cat)[i] : i \in DOMAIN KeywordsOf(cat)}

\* C17: no keyword of a category is a keyword of another category or a
\* substring of one, and a question that is a single keyword matches
\* exactly one category.
C17_KeywordListsDisjoint ==
    /\ \A c1 \in CategorySet, c2 \in CategorySet :
          c1 # c2 => \A w1 \in KeywordSet(c1), w2 \in KeywordSet(c2) : ~Contains(w2, w1)
    /\ (\E cat \in CategorySet : request.question \in KeywordSet(cat)) =>
          Cardinality(MatchedSet) = 1

(***************************************************************************)
(* Properties of the two time helpers (ExtractSpec).                       *)
(***************************************************************************)
\* The instants of the model and those around them.
Instants == (-1)..(MaxTime + 1)

\* The registration block's status line and the overview's status line.
OpenLine(open) ==
    <<"Current Status: {}",
      IF open THEN "OPEN - You can register now!" ELSE "CLOSED - Registration has ended">>
StatusLine(status) == <<"Status: {}", Upper(status)>>

\* C18: an output that has both the registration block's status line and
\* the overview's status line shows a registration state and an overall
\* status that hold together at one instant.
C18_OneInstant ==
    (Extracted /\ (\E open \in BOOLEAN : OpenLine(open) \in Lines)
               /\ OverviewLines # {}) =>
        \E now \in Instants :
            /\ OpenLine(is_registration_currently_open(hackathon_data, now)) \in Lines
            /\ StatusLine(get_hackathon_status(hackathon_data, now)) \in Lines

(***************************************************************************)
(* Properties of the entries' two forms (ExtractSpec).                     *)
(***************************************************************************)
\* Every structured theme and problem statement of the record has a name.
ThemesNamed(d) ==
    \A i \in DOMAIN Get(d, "themes", <<>>) :
        LET theme == d["themes"][i] IN
        theme.kind = "dict" =>
            /\ Has(theme.val, "name")
            /\ \A j \in DOMAIN Get(theme.val, "problem_statements", <<>>) :
                  Has(theme.val["problem_statements"][j], "name")

\* The bare-string entries of a collection of the record.
BareEntries(d, collection) ==
    {Get(d, collection, <<>>)[i].val :
        i \in {j \in DOMAIN Get(d, collection, <<>>) :
                  Get(d, collection, <<>>)[j].kind = "str"}}

\* The category whose block shows the collection's entries.
Shows(cat, collection) ==
    \/ cat = "mentors" /\ collection = "mentors"
    \/ cat = "judges" /\ collection = "judges"
    \/ cat = "partners" /\ collection = "partners"
    \/ cat = "contact_details" /\ collection = "contact_details"

\* C19: whatever the question, and whether the entries of the collections
\* are mappings or bare strings, extract_relevant_sections returns a text
\* (it does not raise, the names of structured themes being present), and
\* a bare-string mentor, judge, partner or contact is shown as it is.
C19_BothFormsHandled ==
    /\ ThemesNamed(hackathon_data) => pc # "done"
    /\ Extracted =>
          \A cat \in MatchedSet, collection \in Collections :
              Shows(cat, collection) =>
                  \A entry \in BareEntries(hackathon_data, collection) :
                      <<"* {}", entry>> \in Lines

(***************************************************************************)
(* Properties of the datetime forms (ExtractSpec).                         *)
(***************************************************************************)
\* Both bounds of the window of d are ISO-8601 texts, with the Z suffix,
\* with an explicit offset, or with neither.
BothBoundsIso(d) == SpecParses(d, "start_datetime") /\ SpecParses(d, "end_datetime")

\* C20: when both bounds of the overall window are ISO-8601 texts of any
\* of the three forms, the status shown is upcoming, ongoing or ended and
\* never unknown; when both bounds of the registration phase are, the
\* registration state shown is that of start <= now <= end, whatever the
\* stored flag says.
C20_ComparisonPath ==
    /\ (Extracted /\ OverviewLines # {} /\ BothBoundsIso(hackathon_data)) =>
          \E status \in {"upcoming", "ongoing", "ended"} : StatusLine(status) \in Lines
    /\ (Extracted /\ (\E open \in BOOLEAN : OpenLine(open) \in Lines)
           /\ SpecRegistrationPhase(hackathon_data).kind = "phase"
           /\ BothBoundsIso(SpecRegistrationPhase(hackathon_data).val)) =>
          LET reg == SpecRegistrationPhase(hackathon_data).val IN
          OpenLine(SpecInstant(reg, "start_datetime") <= reads.reg
                   /\ reads.reg <= SpecInstant(reg, "end_datetime")) \in Lines
=============================================================================
